---- MODULE Spec2Model ----
(***************************************************************************)
(* Playback cursor of an Aseprite animation (src/src/anim.rs): the         *)
(* AsepriteAnimation component, its reset / next_frame / update methods    *)
(* and the playback controls, over a read-only AsepriteInfo clip.          *)
(*                                                                         *)
(* Time is counted in milliseconds (Duration::from_millis of delay_ms).    *)
(* Option<T> is a sequence of length at most one: None is <<>> and         *)
(* Some(x) is <<x>>.  A Rust panic (index out of bounds in                 *)
(* current_frame_duration) is recorded in the variable panicked; nothing   *)
(* runs after it.                                                          *)
(***************************************************************************)
EXTENDS Integers, Sequences, FiniteSets, TLC

VARIABLES
    info,      \* the clip (AsepriteInfo): frame_count, frame_infos, tags
    anim,      \* the AsepriteAnimation component
    prev,      \* the component as it was before the last operation
    op,        \* the last operation: "new", "update", "play", "pause",
               \* "toggle", "last_frame_finished", "split" (two update
               \* calls in a row)
    arg,       \* dt of the last update or last_frame_finished call (else 0)
    ret,       \* value returned by the last update or last_frame_finished call
    steps,     \* number of next_frame calls made by the last update call
    moved,     \* whether current_frame held a value other than its initial
               \* one at some point of the last update call
    panicked,  \* the last update call panicked
    seq,       \* frames shown after the reset and after each following
               \* update call, while every such call was made playing, with
               \* time_elapsed = 0 and dt = exactly the current frame's delay
    held,      \* Some(cursor) from a pause() or pausing toggle() made with
               \* tag_changed clear until the first operation after the
               \* following play(); None otherwise
    split,     \* Some(record) after two update calls made in a row: their
               \* dts and results, and the result the single call
               \* update(dt1 + dt2) gives from the same state; else None
    entities,  \* the entities the driver update_animations runs over, in
               \* query order: asset loaded or not, clip, component, sprite
    aborted,   \* a panic has ended the driver's run
    tick       \* Some(dt) when the driver's last step was a tick, else None

cursor_vars == <<info, anim, prev, op, arg, ret, steps, moved, panicked, seq, held>>

driver_vars == <<entities, aborted, tick>>

vars == <<cursor_vars, split, driver_vars>>

----------------------------------------------------------------------------
(* Bounds of the model *)

MaxFrames == 3

MaxDelay == 2

MaxDt == 3

MaxSeq == 7

NumEntities == 2

----------------------------------------------------------------------------
(* Option and integer helpers *)

None == <<>>

Some(x) == <<x>>

U16(x) == x % 65536

checked_sub(x, y) == IF x >= y THEN Some(x - y) ELSE None

saturating_sub(x, y) == IF x >= y THEN x - y ELSE 0

\* Range<u16>::contains
contains(range, x) == range.start <= x /\ x < range.end

\* HashMap::get on the clip's tag table
get(tags, name) == IF name \in DOMAIN tags THEN Some(tags[name]) ELSE None

----------------------------------------------------------------------------
(* The component *)

Default ==
    [is_playing    |-> TRUE,
     tag           |-> None,
     current_frame |-> 0,
     forward       |-> FALSE,
     time_elapsed  |-> 0,
     tag_changed   |-> TRUE]

From(tag) == [Default EXCEPT !.tag = Some(tag)]

\* A plausible slip: a Reverse tag is entered like the other directions
reset_reverse_at_start(a, i) ==
    LET a1 == [a EXCEPT !.tag_changed = FALSE] IN
    IF a.tag # None
    THEN LET found == get(i.tags, a.tag[1]) IN
         IF found = None
         THEN a1
         ELSE [a1 EXCEPT !.current_frame = found[1].frames.start,
                         !.forward = TRUE]
    ELSE [a1 EXCEPT !.current_frame = 0, !.forward = TRUE]

reset(a, i) ==
    LET a1 == [a EXCEPT !.tag_changed = FALSE] IN
    IF a.tag # None
    THEN LET found == get(i.tags, a.tag[1]) IN
         IF found = None
         THEN a1
         ELSE LET tag   == found[1]
                  range == tag.frames
              IN  IF tag.animation_direction \in {"Forward", "PingPong"}
                  THEN [a1 EXCEPT !.current_frame = range.start,
                                  !.forward = TRUE]
                  ELSE [a1 EXCEPT !.current_frame = range.end - 1,
                                  !.forward = FALSE]
    ELSE [a1 EXCEPT !.current_frame = 0, !.forward = TRUE]

\* A plausible slip: the Forward wrap goes to frame 0, not to range.start
forward_step_wraps_to_zero(a, range) ==
    LET c == a.current_frame IN
    IF contains(range, U16(c + 1))
    THEN [a EXCEPT !.current_frame = c + 1]
    ELSE [a EXCEPT !.current_frame = 0]

forward_step(a, range) ==
    LET c == a.current_frame IN
    IF contains(range, U16(c + 1))
    THEN [a EXCEPT !.current_frame = c + 1]
    ELSE [a EXCEPT !.current_frame = range.start]

\* A plausible slip: saturating_sub in place of checked_sub
reverse_step_saturating(a, range) ==
    LET n == saturating_sub(a.current_frame, 1) IN
    IF contains(range, U16(n))
    THEN [a EXCEPT !.current_frame = n]
    ELSE [a EXCEPT !.current_frame = range.end - 1]

reverse_step(a, range) ==
    LET n == checked_sub(a.current_frame, 1) IN
    IF n # None /\ contains(range, U16(n[1]))
    THEN [a EXCEPT !.current_frame = n[1]]
    ELSE [a EXCEPT !.current_frame = range.end - 1]

\* A plausible slip (or repair): the backward sweep keeps the frame it
\* stepped to and turns forward only at the bottom of the range
pingpong_step_symmetric(a, range) ==
    LET c == a.current_frame IN
    IF a.forward
    THEN IF contains(range, U16(c + 1))
         THEN [a EXCEPT !.current_frame = c + 1]
         ELSE [a EXCEPT !.current_frame = saturating_sub(c + 1, 1),
                        !.forward = FALSE]
    ELSE LET n == checked_sub(c, 1) IN
         IF n # None /\ contains(range, U16(n[1]))
         THEN [a EXCEPT !.current_frame = n[1]]
         ELSE [a EXCEPT !.forward = TRUE]

pingpong_step(a, range) ==
    LET c == a.current_frame IN
    IF a.forward
    THEN IF contains(range, U16(c + 1))
         THEN [a EXCEPT !.current_frame = c + 1]
         ELSE [a EXCEPT !.current_frame = saturating_sub(c + 1, 1),
                        !.forward = FALSE]
    ELSE LET n  == checked_sub(c, 1)
             c1 == IF n # None /\ contains(range, U16(n[1])) THEN n[1] ELSE c
         IN  [a EXCEPT !.current_frame = c1 + 1, !.forward = TRUE]

\* A plausible slip: with no tag selected the wrap still looks at the tag table
whole_clip_step_in_tag(a, i) ==
    IF "walk" \in DOMAIN i.tags
    THEN forward_step(a, i.tags["walk"].frames)
    ELSE [a EXCEPT !.current_frame = (a.current_frame + 1) % i.frame_count]

\* No tag selected
whole_clip_step(a, i) ==
    [a EXCEPT !.current_frame = (a.current_frame + 1) % i.frame_count]

\* A plausible slip: an unknown tag is played like no tag at all
next_frame_unknown_as_none(a, i) ==
    IF a.tag # None
    THEN LET found == get(i.tags, a.tag[1]) IN
         IF found = None
         THEN whole_clip_step(a, i)
         ELSE LET tag   == found[1]
                  range == tag.frames
              IN  CASE tag.animation_direction = "Forward"  -> forward_step(a, range)
                    [] tag.animation_direction = "Reverse"  -> reverse_step(a, range)
                    [] tag.animation_direction = "PingPong" -> pingpong_step(a, range)
    ELSE whole_clip_step(a, i)

next_frame(a, i) ==
    IF a.tag # None
    THEN LET found == get(i.tags, a.tag[1]) IN
         IF found = None
         THEN a
         ELSE LET tag   == found[1]
                  range == tag.frames
              IN  CASE tag.animation_direction = "Forward"  -> forward_step(a, range)
                    [] tag.animation_direction = "Reverse"  -> reverse_step(a, range)
                    [] tag.animation_direction = "PingPong" -> pingpong_step(a, range)
    ELSE whole_clip_step(a, i)

\* frame_infos[current_frame] panics when the index is out of bounds
index_in_bounds(a, i) == a.current_frame < Len(i.frame_infos)

current_frame_duration(a, i) == i.frame_infos[a.current_frame + 1].delay_ms

\* A plausible slip: the test is inverted
is_paused_inverted(a) == a.is_playing

is_paused(a) == ~a.is_playing

\* A plausible slip: the last frame is taken to be frames.end
last_frame_finished_at_end(a, i, dt) ==
    IF a.tag = None
    THEN [ret |-> FALSE, panicked |-> FALSE]
    ELSE LET found == get(i.tags, a.tag[1]) IN
         IF found = None
         THEN [ret |-> FALSE, panicked |-> FALSE]
         ELSE IF ~index_in_bounds(a, i)
              THEN [ret |-> FALSE, panicked |-> TRUE]
              ELSE [ret |-> /\ a.current_frame = found[1].frames.end
                            /\ a.time_elapsed + dt >= current_frame_duration(a, i),
                    panicked |-> FALSE]

\* is_last_frame && frame_finished; both operands are computed, so the
\* duration is read (and may panic) on every frame
last_frame_finished(a, i, dt) ==
    IF a.tag = None
    THEN [ret |-> FALSE, panicked |-> FALSE]
    ELSE LET found == get(i.tags, a.tag[1]) IN
         IF found = None
         THEN [ret |-> FALSE, panicked |-> FALSE]
         ELSE IF ~index_in_bounds(a, i)
              THEN [ret |-> FALSE, panicked |-> TRUE]
              ELSE [ret |-> /\ a.current_frame = found[1].frames.end - 1
                            /\ a.time_elapsed + dt >= current_frame_duration(a, i),
                    panicked |-> FALSE]

\* A plausible slip: > in place of >= in the loop condition
frame_elapsed_strict(a, i) == a.time_elapsed > current_frame_duration(a, i)

\* the condition of the accumulation loop
frame_elapsed(a, i) == a.time_elapsed >= current_frame_duration(a, i)

\* A plausible slip: the loop keeps the duration read before it and never
\* reads the duration of the frame it has stepped to
RECURSIVE drain_stale_loop(_, _, _, _, _, _)
drain_stale_loop(a, i, n, m, f0, d) ==
    IF a.time_elapsed >= d
    THEN LET a2 == next_frame([a EXCEPT !.time_elapsed = @ - d], i) IN
         IF index_in_bounds(a2, i)
         THEN drain_stale_loop(a2, i, n + 1, m \/ a2.current_frame # f0, f0, d)
         ELSE [anim |-> a2, ret |-> FALSE, steps |-> n + 1, moved |-> TRUE,
               panicked |-> TRUE]
    ELSE [anim |-> a, ret |-> n > 0, steps |-> n, moved |-> m, panicked |-> FALSE]

drain_stale(a, i, n, m, f0) ==
    drain_stale_loop(a, i, n, m, f0, current_frame_duration(a, i))

\* The accumulation loop of update, entered with time_elapsed already
\* increased by dt: n counts the steps made so far, m tells whether
\* current_frame has differed from f0, the frame at the start of the call.
RECURSIVE drain(_, _, _, _, _)
drain(a, i, n, m, f0) ==
    IF ~index_in_bounds(a, i)
    THEN [anim |-> a, ret |-> FALSE, steps |-> n, moved |-> m, panicked |-> TRUE]
    ELSE IF frame_elapsed(a, i)
         THEN LET a1 == [a EXCEPT !.time_elapsed = @ - current_frame_duration(a, i)]
                  a2 == next_frame(a1, i)
              IN  drain(a2, i, n + 1, m \/ a2.current_frame # f0, f0)
         ELSE [anim |-> a, ret |-> n > 0, steps |-> n, moved |-> m,
               panicked |-> FALSE]

\* A plausible slip: the reset branch reports "unchanged"
update_reset_silent(a, i, dt) ==
    IF a.tag_changed
    THEN LET a1 == reset(a, i) IN
         [anim |-> a1, ret |-> FALSE, steps |-> 0,
          moved |-> a1.current_frame # a.current_frame, panicked |-> FALSE]
    ELSE IF is_paused(a)
         THEN [anim |-> a, ret |-> FALSE, steps |-> 0, moved |-> FALSE,
               panicked |-> FALSE]
         ELSE drain([a EXCEPT !.time_elapsed = @ + dt], i, 0, FALSE,
                    a.current_frame)

update(a, i, dt) ==
    IF a.tag_changed
    THEN LET a1 == reset(a, i) IN
         [anim |-> a1, ret |-> TRUE, steps |-> 0,
          moved |-> a1.current_frame # a.current_frame, panicked |-> FALSE]
    ELSE IF is_paused(a)
         THEN [anim |-> a, ret |-> FALSE, steps |-> 0, moved |-> FALSE,
               panicked |-> FALSE]
         ELSE drain([a EXCEPT !.time_elapsed = @ + dt], i, 0, FALSE,
                    a.current_frame)

play(a) == [a EXCEPT !.is_playing = TRUE]

pause(a) == [a EXCEPT !.is_playing = FALSE]

toggle(a) == [a EXCEPT !.is_playing = ~a.is_playing]

----------------------------------------------------------------------------
(* The clips and inputs the model runs on *)

Directions == {"Forward", "Reverse", "PingPong"}

Ranges(n) ==
    {[start |-> s, end |-> e] : <<s, e>> \in {p \in (0 .. n - 1) \X (1 .. n) : p[1] < p[2]}}

NoTags == [t \in {} |-> None]

TagTable(r, d) == [t \in {"walk"} |-> [frames |-> r, animation_direction |-> d]]

TagTables(n) == {NoTags} \cup {TagTable(r, d) : r \in Ranges(n), d \in Directions}

Uniform(n, d) == [k \in 1 .. n |-> [delay_ms |-> d]]

Ascending(n) == [k \in 1 .. n |-> [delay_ms |-> 1 + ((k - 1) % MaxDelay)]]

Descending(n) == [k \in 1 .. n |-> [delay_ms |-> MaxDelay - ((k - 1) % MaxDelay)]]

DelayProfiles(n) ==
    {Uniform(n, d) : d \in 1 .. MaxDelay} \cup {Ascending(n), Descending(n)}

Clip(n, f, t) == [frame_count |-> n, frame_infos |-> f, tags |-> t]

GeneralClips ==
    UNION {{Clip(n, f, t) : f \in DelayProfiles(n), t \in TagTables(n)} : n \in 1 .. MaxFrames}

\* The clips of the worked examples: 100 ms per frame
ExampleClips ==
    {Clip(5, Uniform(5, 100), TagTable([start |-> 2, end |-> 5], "Forward")),
     Clip(5, Uniform(5, 100), TagTable([start |-> 2, end |-> 5], "Reverse")),
     Clip(4, Uniform(4, 100), TagTable([start |-> 0, end |-> 4], "PingPong")),
     Clip(6, Uniform(6, 100), TagTable([start |-> 1, end |-> 3], "Forward")),
     Clip(6, Uniform(6, 100), NoTags)}

Clips == GeneralClips \cup ExampleClips

Dts(i) == IF i \in ExampleClips THEN {0, 50, 100, 250} ELSE 0 .. MaxDt

\* "idle" is in no tag table: selecting it is selecting an unknown tag
Selections == {None, Some("walk"), Some("idle")}

New(sel) == IF sel = None THEN Default ELSE From(sel[1])

----------------------------------------------------------------------------
(* The state machine *)

\* no driver runs: a single component is operated directly
NoDriver ==
    /\ entities = <<>>
    /\ aborted = FALSE
    /\ tick = None

Init ==
    /\ info \in Clips
    /\ anim \in {New(sel) : sel \in Selections}
    /\ prev = anim
    /\ op = "new"
    /\ arg = 0
    /\ ret = FALSE
    /\ steps = 0
    /\ moved = FALSE
    /\ panicked = FALSE
    /\ seq = <<>>
    /\ held = None
    /\ split = None
    /\ NoDriver

\* The component is replaced by a newly constructed one
Construct(sel) ==
    /\ ~panicked
    /\ anim' = New(sel)
    /\ prev' = anim'
    /\ op' = "new"
    /\ arg' = 0
    /\ ret' = FALSE
    /\ steps' = 0
    /\ moved' = FALSE
    /\ seq' = <<>>
    /\ held' = None
    /\ UNCHANGED <<info, panicked, split, driver_vars>>

Update(dt) ==
    /\ ~panicked
    /\ LET r == update(anim, info, dt) IN
       /\ anim' = r.anim
       /\ ret' = r.ret
       /\ steps' = r.steps
       /\ moved' = r.moved
       /\ panicked' = r.panicked
       /\ seq' = IF r.panicked THEN <<>>
                 ELSE IF anim.tag_changed THEN <<r.anim.current_frame>>
                 ELSE IF /\ seq # <<>>
                         /\ Len(seq) < MaxSeq
                         /\ anim.is_playing
                         /\ anim.time_elapsed = 0
                         /\ dt = current_frame_duration(anim, info)
                      THEN Append(seq, r.anim.current_frame)
                      ELSE <<>>
    /\ prev' = anim
    /\ op' = "update"
    /\ arg' = dt
    /\ held' = IF is_paused(anim) /\ ~anim.tag_changed THEN held ELSE None
    /\ UNCHANGED <<info, split, driver_vars>>

\* The query last_frame_finished(&self, info, dt)
LastFrameFinished(dt) ==
    /\ ~panicked
    /\ LET r == last_frame_finished(anim, info, dt) IN
       /\ ret' = r.ret
       /\ panicked' = r.panicked
    /\ prev' = anim
    /\ op' = "last_frame_finished"
    /\ arg' = dt
    /\ steps' = 0
    /\ moved' = FALSE
    /\ held' = IF is_paused(anim) THEN held ELSE None
    /\ UNCHANGED <<info, anim, seq, split, driver_vars>>

\* what playback resumes from: the frame, the sweep and the time within it
Cursor(a) == <<a.current_frame, a.forward, a.time_elapsed>>

Control(name, a) ==
    /\ ~panicked
    /\ anim' = a
    /\ prev' = anim
    /\ op' = name
    /\ arg' = 0
    /\ ret' = FALSE
    /\ steps' = 0
    /\ moved' = FALSE
    /\ held' = IF is_paused(a)
               THEN IF a.tag_changed THEN None ELSE Some(Cursor(a))
               ELSE IF is_paused(anim) THEN held ELSE None
    /\ UNCHANGED <<info, panicked, seq, split, driver_vars>>

Play == Control("play", play(anim))

Pause == Control("pause", pause(anim))

Toggle == Control("toggle", toggle(anim))

Next ==
    \/ \E sel \in Selections : Construct(sel)
    \/ \E dt \in Dts(info) : Update(dt)
    \/ \E dt \in Dts(info) : LastFrameFinished(dt)
    \/ Play
    \/ Pause
    \/ Toggle

Spec == Init /\ [][Next]_vars

----------------------------------------------------------------------------
(* Playback under a running clock: the driver calls update on every tick  *)
(* with the time since the last one, which is more than 0.                 *)

Advance == \E dt \in Dts(info) \ {0} : Update(dt)

SpecLive == Init /\ [][Advance]_vars /\ WF_vars(Advance)

----------------------------------------------------------------------------
(* Two update calls in a row, next to the one call over the same time *)

\* update(dt1) then update(dt2) on the same component, next to what a single
\* update(dt1 + dt2) makes of it; a panic in the first call ends the run
two_updates(a, i, dt1, dt2) ==
    LET r1 == update(a, i, dt1) IN
    [dt1 |-> dt1, dt2 |-> dt2, first |-> r1,
     second |-> IF r1.panicked THEN None ELSE Some(update(r1.anim, i, dt2)),
     whole |-> update(a, i, dt1 + dt2)]

Split(dt1, dt2) ==
    /\ ~panicked
    /\ \E sp \in {two_updates(anim, info, dt1, dt2)} :
          \E r \in {IF sp.second = None THEN sp.first ELSE sp.second[1]} :
              /\ anim' = r.anim
              /\ ret' = r.ret
              /\ steps' = r.steps
              /\ moved' = r.moved
              /\ panicked' = r.panicked
              /\ split' = Some(sp)
    /\ prev' = anim
    /\ op' = "split"
    /\ arg' = dt1 + dt2
    /\ seq' = <<>>
    /\ held' = None
    /\ UNCHANGED <<info, driver_vars>>

\* the time steps handed to update are those of Update; a step is split
\* into two parts
SplitNext ==
    \E dt \in Dts(info), dt1 \in Dts(info) :
        dt1 <= dt /\ Split(dt1, dt - dt1)

SpecSplit == Init /\ [][SplitNext]_vars

----------------------------------------------------------------------------
(* The driver update_animations: one tick runs over every entity in query *)
(* order; an entity whose asset is not loaded is skipped, a panic ends the *)
(* run where it happens.                                                   *)

\* The atlas lookup of the clip: frames of the clip are mapped (here frame f
\* to region 2 f + 1, so that no frame maps to the sprite's default index),
\* other indices are not.
frame_to_idx(i, f) == IF f < i.frame_count THEN Some(2 * f + 1) ELSE None

\* the body of the loop for an entity whose asset is loaded
animate(e, dt) ==
    LET r   == update(e.anim, e.info, dt)
        idx == IF ~r.panicked /\ r.ret
               THEN frame_to_idx(e.info, r.anim.current_frame)
               ELSE None
    IN  [entity   |-> [e EXCEPT !.anim = r.anim,
                                !.sprite = IF idx # None THEN idx[1] ELSE @],
         panicked |-> r.panicked]

RECURSIVE run_batch(_, _, _)
run_batch(es, k, dt) ==
    IF k > Len(es)
    THEN [entities |-> es, aborted |-> FALSE]
    ELSE IF ~es[k].loaded
         THEN run_batch(es, k + 1, dt)
         ELSE LET r == animate(es[k], dt) IN
              IF r.panicked
              THEN [entities |-> [es EXCEPT ![k] = r.entity], aborted |-> TRUE]
              ELSE run_batch([es EXCEPT ![k] = r.entity], k + 1, dt)

update_animations(es, dt) == run_batch(es, 1, dt)

Entity(loaded, i, sel) ==
    [loaded |-> loaded, info |-> i, anim |-> New(sel), sprite |-> 0]

\* Entities of a two-frame clip (delays 1 and 2): no tag, an unknown tag, an
\* asset not loaded yet, a paused animation, every PingPong range, and a
\* Reverse tag.
EntityKinds ==
    {Entity(TRUE, Clip(2, Ascending(2), NoTags), None),
     Entity(TRUE, Clip(2, Ascending(2), NoTags), Some("idle")),
     Entity(FALSE, Clip(2, Ascending(2), TagTable([start |-> 0, end |-> 2], "PingPong")),
            Some("walk")),
     Entity(TRUE, Clip(2, Ascending(2), TagTable([start |-> 0, end |-> 2], "Reverse")),
            Some("walk")),
     [Entity(TRUE, Clip(2, Ascending(2), TagTable([start |-> 1, end |-> 2], "Forward")),
             Some("walk")) EXCEPT !.anim = pause(@)]}
    \cup {Entity(TRUE, Clip(2, Ascending(2), TagTable(r, "PingPong")), Some("walk")) :
             r \in Ranges(2)}

\* the single component is not used while the driver runs
NoCursor ==
    /\ info = Clip(1, Uniform(1, 1), NoTags)
    /\ anim = Default
    /\ prev = Default
    /\ op = "new"
    /\ arg = 0
    /\ ret = FALSE
    /\ steps = 0
    /\ moved = FALSE
    /\ panicked = FALSE
    /\ seq = <<>>
    /\ held = None

DriverInit ==
    /\ entities \in [1 .. NumEntities -> EntityKinds]
    /\ aborted = FALSE
    /\ tick = None
    /\ split = None
    /\ NoCursor

Tick(dt) ==
    /\ ~aborted
    /\ LET r == update_animations(entities, dt) IN
       /\ entities' = r.entities
       /\ aborted' = r.aborted
    /\ tick' = Some(dt)
    /\ UNCHANGED <<cursor_vars, split>>

\* The asset of entity k finishes loading: its handle is valid from now on
Load(k) ==
    /\ ~aborted
    /\ ~entities[k].loaded
    /\ entities' = [entities EXCEPT ![k].loaded = TRUE]
    /\ tick' = None
    /\ UNCHANGED <<aborted, cursor_vars, split>>

DriverNext ==
    \/ \E dt \in 0 .. MaxDt : Tick(dt)
    \/ \E k \in 1 .. NumEntities : Load(k)

SpecDriver == DriverInit /\ [][DriverNext]_vars

----------------------------------------------------------------------------
(* Vocabulary of the properties *)

Known(a, i) == a.tag # None /\ a.tag[1] \in DOMAIN i.tags

Unknown(a, i) == a.tag # None /\ a.tag[1] \notin DOMAIN i.tags

RangeOf(a, i) == i.tags[a.tag[1]].frames

DirectionOf(a, i) == i.tags[a.tag[1]].animation_direction

RangeLen(r) == r.end - r.start

UniformDelay(i) == \A k \in 1 .. Len(i.frame_infos) : i.frame_infos[k] = i.frame_infos[1]

IsPrefix(s, t) == Len(s) <= Len(t) /\ \A k \in 1 .. Len(s) : s[k] = t[k]

\* an update call that went through the accumulation loop
Accumulated == op = "update" /\ ~prev.tag_changed /\ prev.is_playing

----------------------------------------------------------------------------
(* C1: after any sequence of update calls, for every valid clip and every  *)
(* selection, 0 <= current_frame < frame_count, so that                    *)
(* current_frame_duration never indexes out of bounds (no panic).          *)
C1_FrameInBounds ==
    /\ ~panicked
    /\ 0 <= anim.current_frame
    /\ anim.current_frame < info.frame_count

(* C2: while a tag of the clip is selected and the reset has been done,    *)
(* current_frame lies in the tag's range [start, end) after every update,  *)
(* for every direction and every range length >= 1.                        *)
C2_FrameInTagRange ==
    (Known(anim, info) /\ ~anim.tag_changed)
        => contains(RangeOf(anim, info), anim.current_frame)

(* C3: an update call made with tag_changed set (any dt, playing or        *)
(* paused) puts current_frame/forward on the entry point of the selection  *)
(* (start and forward for a Forward or PingPong tag, end - 1 and backward   *)
(* for a Reverse tag, frame 0 and forward for no tag), clears tag_changed,  *)
(* leaves time_elapsed and is_playing alone, makes no step and returns     *)
(* true; an update call made with tag_changed clear leaves it clear, and   *)
(* no operation other than a construction sets it.                         *)
C3_ResetOnTagChanged ==
    /\ (op = "update" /\ prev.tag_changed) =>
          /\ ~panicked
          /\ ret
          /\ steps = 0
          /\ ~anim.tag_changed
          /\ anim.time_elapsed = prev.time_elapsed
          /\ anim.is_playing = prev.is_playing
          /\ anim.tag = prev.tag
          /\ Known(prev, info) =>
                IF DirectionOf(prev, info) = "Reverse"
                THEN /\ anim.current_frame = RangeOf(prev, info).end - 1
                     /\ ~anim.forward
                ELSE /\ anim.current_frame = RangeOf(prev, info).start
                     /\ anim.forward
          /\ prev.tag = None => (anim.current_frame = 0 /\ anim.forward)
    /\ (op # "new" /\ ~prev.tag_changed) => ~anim.tag_changed
    /\ op = "update" => ~anim.tag_changed

C3_Witness ==
    /\ op = "update"
    /\ prev.tag_changed
    /\ ~prev.is_playing
    /\ arg > 0
    /\ Known(prev, info)
    /\ DirectionOf(prev, info) = "Reverse"
    /\ anim.current_frame = RangeOf(prev, info).end - 1
    /\ anim.current_frame > 0
    /\ ret

(* C4: immediately after any update call that returns (a reset call, a     *)
(* paused call or an accumulating call), 0 <= time_elapsed < the delay of   *)
(* the frame that is current after the call.                               *)
C4_ElapsedBelowDuration ==
    (op = "update" /\ ~panicked) =>
        /\ 0 <= anim.time_elapsed
        /\ anim.time_elapsed < current_frame_duration(anim, info)

C4_Witness ==
    /\ Accumulated
    /\ ~panicked
    /\ steps >= 2
    /\ anim.time_elapsed > 0
    /\ anim.current_frame # prev.current_frame
    /\ current_frame_duration(anim, info) # current_frame_duration(prev, info)

(* C5, as claimed: with an unknown tag selected, every update call leaves   *)
(* current_frame and time_elapsed unchanged and does not panic.            *)
C5_UnknownTagLeavesState ==
    (op = "update" /\ Unknown(prev, info)) =>
        /\ ~panicked
        /\ anim.current_frame = prev.current_frame
        /\ anim.time_elapsed = prev.time_elapsed

(* C5, amended: with an unknown tag selected, every update call leaves      *)
(* current_frame and forward unchanged and does not panic; the resetting   *)
(* call and a paused call leave time_elapsed unchanged too, and a playing  *)
(* call leaves time_elapsed = (time_elapsed + dt) mod the current frame's   *)
(* delay.                                                                  *)
C5_UnknownTagKeepsFrame ==
    (op = "update" /\ Unknown(prev, info)) =>
        /\ ~panicked
        /\ anim.current_frame = prev.current_frame
        /\ anim.forward = prev.forward
        /\ anim.time_elapsed =
              IF Accumulated
              THEN (prev.time_elapsed + arg) % current_frame_duration(prev, info)
              ELSE prev.time_elapsed

C5_Witness ==
    /\ Accumulated
    /\ Unknown(prev, info)
    /\ steps >= 2
    /\ anim.time_elapsed # prev.time_elapsed
    /\ anim.current_frame = prev.current_frame

(* C6: update returns true exactly when the displayed frame changed: true   *)
(* whenever current_frame after the call differs from before, false        *)
(* whenever current_frame held no other value than its initial one during  *)
(* the call.                                                               *)
C6_ReturnIffFrameChanged ==
    (op = "update" /\ ~panicked) =>
        /\ anim.current_frame # prev.current_frame => ret
        /\ ~moved => ~ret

(* C7: for the PingPong tag [0,4) with a uniform delay, update calls of     *)
(* exactly one frame delay, from the reset on, show the frames             *)
(* 0,1,2,3,2,3,... (or, counting the turn as a call of its own,            *)
(* 0,1,2,3,3,2,3): frame 2 is shown again after the top frame 3.           *)
C7_PingPongSequence ==
    (/\ Known(anim, info)
     /\ DirectionOf(anim, info) = "PingPong"
     /\ RangeOf(anim, info) = [start |-> 0, end |-> 4]
     /\ UniformDelay(info))
        => \/ IsPrefix(seq, <<0, 1, 2, 3, 2, 3, 2>>)
           \/ IsPrefix(seq, <<0, 1, 2, 3, 3, 2, 3>>)

(* C8: update(0) with tag_changed clear changes nothing of the component    *)
(* and returns false, in every reachable state; update(0) with tag_changed *)
(* set resets and returns true.                                            *)
C8_ZeroDtIsIdentity ==
    (op = "update" /\ arg = 0) =>
        /\ ~panicked
        /\ IF prev.tag_changed
           THEN ret /\ anim = reset(prev, info)
           ELSE ~ret /\ anim = prev /\ steps = 0

C8_Witness ==
    /\ Accumulated
    /\ arg = 0
    /\ prev.time_elapsed > 0
    /\ prev.current_frame > 0
    /\ Known(prev, info)
    /\ current_frame_duration(prev, info) # info.frame_infos[1].delay_ms
    /\ anim = prev
    /\ ~ret

(* C9: for a Forward tag [start, end) and a uniform delay d, an            *)
(* accumulating update(dt) from frame c of the range and time_elapsed t    *)
(* ends on frame start + ((c - start + (t + dt) div d) mod (end - start))   *)
(* with time_elapsed = (t + dt) mod d, and returns true iff                *)
(* (t + dt) div d >= 1.                                                    *)
C9_ForwardClosedForm ==
    (/\ Accumulated
     /\ Known(prev, info)
     /\ DirectionOf(prev, info) = "Forward"
     /\ UniformDelay(info)
     /\ contains(RangeOf(prev, info), prev.current_frame))
        => LET r == RangeOf(prev, info)
               d == info.frame_infos[1].delay_ms
               q == (prev.time_elapsed + arg) \div d
           IN  /\ ~panicked
               /\ anim.current_frame =
                     r.start + ((prev.current_frame - r.start + q) % RangeLen(r))
               /\ anim.time_elapsed = (prev.time_elapsed + arg) % d
               /\ ret <=> q >= 1
               /\ steps = q

\* the worked example: tag [2,5), 100 ms, frame 2, t = 0, dt = 250 ms
C9_Witness ==
    /\ Accumulated
    /\ Known(prev, info)
    /\ DirectionOf(prev, info) = "Forward"
    /\ RangeOf(prev, info) = [start |-> 2, end |-> 5]
    /\ info.frame_infos[1].delay_ms = 100
    /\ prev.current_frame = 2
    /\ prev.time_elapsed = 0
    /\ arg = 250
    /\ anim.current_frame = 4
    /\ anim.time_elapsed = 50
    /\ ret

(* C10: for a Reverse tag [start, end) the reset enters at end - 1 with     *)
(* forward = false, and every update call of exactly one frame delay       *)
(* shows the frame before, wrapping from start to end - 1, also when       *)
(* start = 0.                                                              *)
C10_ReverseCycle ==
    (Known(anim, info) /\ DirectionOf(anim, info) = "Reverse") =>
        LET r == RangeOf(anim, info) IN
        /\ (op = "update" /\ prev.tag_changed) =>
              (anim.current_frame = r.end - 1 /\ ~anim.forward)
        /\ seq # <<>> => seq[1] = r.end - 1
        /\ \A k \in 1 .. Len(seq) - 1 :
              seq[k + 1] = IF seq[k] = r.start THEN r.end - 1 ELSE seq[k] - 1
        /\ (Accumulated /\ ~panicked /\ steps = 1) =>
              anim.current_frame = IF prev.current_frame = r.start
                                   THEN r.end - 1
                                   ELSE prev.current_frame - 1

\* the underflow: a wrap from frame 0 of a range of several frames
C10_Witness ==
    /\ Known(anim, info)
    /\ DirectionOf(anim, info) = "Reverse"
    /\ RangeOf(anim, info).start = 0
    /\ RangeOf(anim, info).end >= 3
    /\ Len(seq) >= 5
    /\ \E k \in 1 .. Len(seq) - 1 :
          seq[k] = 0 /\ seq[k + 1] = RangeOf(anim, info).end - 1

(* C11: with no tag selected every step sets current_frame to              *)
(* (current_frame + 1) mod frame_count and leaves forward alone, so        *)
(* update calls of exactly one frame delay show 0, 1, ..., frame_count - 1, *)
(* 0, 1, ...; this is so whatever the clip's tag table holds.              *)
C11_WholeClipCycle ==
    anim.tag = None =>
        /\ \A k \in 1 .. Len(seq) : seq[k] = (k - 1) % info.frame_count
        /\ (Accumulated /\ ~panicked) =>
              /\ anim.current_frame =
                    (prev.current_frame + steps) % info.frame_count
              /\ anim.forward = prev.forward

\* the worked example (6 frames), on the clip whose tag table holds a tag
C11_Witness ==
    /\ anim.tag = None
    /\ info.frame_count = 6
    /\ info.tags # NoTags
    /\ seq = <<0, 1, 2, 3, 4, 5, 0>>
    /\ Accumulated
    /\ steps = 1

(* C12: last_frame_finished(dt) returns true iff a tag of the clip is      *)
(* selected, current_frame is that tag's range.end - 1 and                 *)
(* time_elapsed + dt >= the current frame's delay; it is false on every    *)
(* other frame, with no tag and with an unknown tag, and it changes        *)
(* nothing of the component.                                               *)
C12_LastFrameFinished ==
    op = "last_frame_finished" =>
        /\ ~panicked
        /\ anim = prev
        /\ ret <=> /\ Known(anim, info)
                   /\ anim.current_frame = RangeOf(anim, info).end - 1
                   /\ anim.time_elapsed + arg >= current_frame_duration(anim, info)

C12_Witness ==
    /\ op = "last_frame_finished"
    /\ ret
    /\ Known(anim, info)
    /\ RangeLen(RangeOf(anim, info)) >= 2
    /\ anim.time_elapsed > 0
    /\ anim.time_elapsed + arg = current_frame_duration(anim, info)

(* C13: while paused with tag_changed clear, an update call with any dt    *)
(* returns false and leaves the whole component unchanged; play(), pause() *)
(* and toggle() change is_playing only; so after play() the component      *)
(* holds exactly the frame, sweep and time_elapsed it held at pause().      *)
C13_PausedHoldsCursor ==
    /\ (op = "update" /\ ~prev.tag_changed /\ ~prev.is_playing) =>
          (~panicked /\ ~ret /\ steps = 0 /\ anim = prev)
    /\ op = "play" => anim = [prev EXCEPT !.is_playing = TRUE]
    /\ op = "pause" => anim = [prev EXCEPT !.is_playing = FALSE]
    /\ op = "toggle" => anim = [prev EXCEPT !.is_playing = ~prev.is_playing]
    /\ held # None => Cursor(anim) = held[1]

\* resumed after paused update calls that would have crossed a frame
C13_Witness ==
    /\ op = "play"
    /\ held # None
    /\ anim.is_playing
    /\ anim.time_elapsed > 0
    /\ anim.current_frame > 0
    /\ Cursor(anim) = held[1]

\* a paused update call with a dt of more than the frame's delay
C13_PausedCall ==
    /\ op = "update"
    /\ ~prev.tag_changed
    /\ ~prev.is_playing
    /\ prev.time_elapsed + arg > current_frame_duration(prev, info)
    /\ anim = prev

MinDelay(i) ==
    CHOOSE d \in {i.frame_infos[k].delay_ms : k \in 1 .. Len(i.frame_infos)} :
        \A k \in 1 .. Len(i.frame_infos) : d <= i.frame_infos[k].delay_ms

(* C14: on a clip whose delays are all > 0 every update call terminates:   *)
(* the accumulation loop makes finitely many steps, at most                *)
(* (time_elapsed + dt) div the shortest delay, and exits with time_elapsed  *)
(* below the current frame's delay, for every direction, for no tag and    *)
(* for an unknown tag.                                                     *)
C14_UpdateTerminates ==
    op = "update" =>
        /\ ~panicked
        /\ steps <= (prev.time_elapsed + arg) \div MinDelay(info)
        /\ anim.time_elapsed < current_frame_duration(anim, info)

(* C17: one step of a PingPong tag from a frame c of the range: sweeping   *)
(* forward it shows c + 1 if that is in the range, else it keeps c and      *)
(* turns backward; sweeping backward it shows (c - 1 if that is in the     *)
(* range, else c) + 1 and turns forward, so a backward step always ends    *)
(* with forward set.                                                       *)
C17_PingPongStep ==
    (/\ Accumulated
     /\ steps = 1
     /\ Known(prev, info)
     /\ DirectionOf(prev, info) = "PingPong"
     /\ contains(RangeOf(prev, info), prev.current_frame))
        => LET r == RangeOf(prev, info)
               c == prev.current_frame
           IN  IF prev.forward
               THEN IF contains(r, c + 1)
                    THEN anim.current_frame = c + 1 /\ anim.forward
                    ELSE anim.current_frame = c /\ ~anim.forward
               ELSE /\ anim.current_frame =
                          (IF contains(r, c - 1) THEN c - 1 ELSE c) + 1
                    /\ anim.forward

\* a backward step from the top of a range of several frames
C17_Witness ==
    /\ Accumulated
    /\ steps = 1
    /\ ~panicked
    /\ Known(prev, info)
    /\ DirectionOf(prev, info) = "PingPong"
    /\ RangeLen(RangeOf(prev, info)) >= 2
    /\ prev.current_frame = RangeOf(prev, info).end - 1
    /\ ~prev.forward
    /\ anim.current_frame = prev.current_frame
    /\ anim.forward

(* C19: from a playing state with tag_changed clear, update(dt1) followed  *)
(* by update(dt2) ends with the same current_frame, forward and            *)
(* time_elapsed as the single call update(dt1 + dt2), and the single call  *)
(* returns true iff one of the two calls does (and panics iff one of the   *)
(* two does).                                                              *)
C19_SplitEqualsWhole ==
    (split # None /\ ~prev.tag_changed /\ prev.is_playing) =>
        LET sp == split[1] IN
        IF sp.second = None
        THEN sp.whole.panicked
        ELSE LET r2 == sp.second[1] IN
             /\ sp.whole.panicked = r2.panicked
             /\ ~r2.panicked =>
                   /\ sp.whole.anim = r2.anim
                   /\ sp.whole.anim = anim
                   /\ sp.whole.ret = (sp.first.ret \/ r2.ret)
                   /\ sp.whole.steps = sp.first.steps + r2.steps

\* both calls step, time is carried from the first into the second, and
\* the frames crossed have different delays
C19_Witness ==
    /\ split # None
    /\ ~prev.tag_changed
    /\ prev.is_playing
    /\ split[1].second # None
    /\ ~panicked
    /\ split[1].dt1 > 0
    /\ split[1].dt2 > 0
    /\ split[1].first.steps >= 1
    /\ split[1].first.anim.time_elapsed > 0
    /\ split[1].second[1].steps >= 1
    /\ current_frame_duration(prev, info) # current_frame_duration(anim, info)

\* an entity whose handle is invalid or whose tag is unknown
Failing(e) == ~e.loaded \/ Unknown(e.anim, e.info)

(* C15: in a tick over a batch that holds an entity with an invalid handle *)
(* or an unknown tag, the batch is not aborted, every other entity is      *)
(* advanced exactly once with the tick's dt, and the failing entity keeps  *)
(* its current_frame.                                                      *)
C15_FailingEntityNeverAborts ==
    [][(tick' # None /\ \E k \in 1 .. Len(entities) : Failing(entities[k])) =>
          /\ ~aborted'
          /\ \A k \in 1 .. Len(entities) :
                IF Failing(entities[k])
                THEN entities'[k].anim.current_frame =
                        entities[k].anim.current_frame
                ELSE entities'[k].anim =
                        update(entities[k].anim, entities[k].info, tick'[1]).anim
      ]_vars

(* C16: under a PingPong tag of at least 2 frames, playing, with update    *)
(* called again and again with dt > 0, the first frame of the range is     *)
(* shown again and again.                                                  *)
C16_PingPongSweeps ==
    []<>(\/ ~(/\ Known(anim, info)
              /\ DirectionOf(anim, info) = "PingPong"
              /\ RangeLen(RangeOf(anim, info)) >= 2)
         \/ anim.current_frame = RangeOf(anim, info).start)

(* C18: after every tick that ran to its end, the sprite of every entity   *)
(* with a loaded clip shows the atlas region of its current_frame.         *)
C18_SpriteShowsCurrentFrame ==
    (tick # None /\ ~aborted) =>
        \A k \in 1 .. Len(entities) :
            entities[k].loaded =>
                Some(entities[k].sprite) =
                    frame_to_idx(entities[k].info, entities[k].anim.current_frame)

\* after ticks that stepped: an entity on frame 1 with time carried over,
\* next to an entity still on the frame its reset entered (written by the
\* reset call alone) and an entity that was never advanced
C18_Witness ==
    /\ tick # None
    /\ tick[1] > 0
    /\ ~aborted
    /\ \E k \in 1 .. Len(entities) :
          /\ entities[k].loaded
          /\ entities[k].anim.tag = None
          /\ entities[k].anim.current_frame = 1
          /\ entities[k].anim.time_elapsed > 0
          /\ entities[k].sprite = 3
    /\ \E k \in 1 .. Len(entities) :
          /\ entities[k].loaded
          /\ Unknown(entities[k].anim, entities[k].info)
          /\ ~entities[k].anim.tag_changed
          /\ entities[k].sprite = 1

====
